---- MODULE Spec2Model ----
(***************************************************************************)
(* A model of PMSimulatorItem.cpp of the PenaltyMethodPlugin for           *)
(* Choreonoid: the HighGainControllerItem that plays a reference motion    *)
(* (start / input / control / output / stop) and the PMSimulatorItem that  *)
(* registers bodies in the world (initializeSimulation, addBody) and       *)
(* advances it (stepSimulation).                                           *)
(*                                                                         *)
(* Units.  Frame rates are integers in micro-hertz and the world time step *)
(* is an integer in milliseconds, so that the comparison of line 90,       *)
(*     fabs(frameRate - 1.0 / worldTimeStep) > 1.0e-6,                     *)
(* is decided in exact arithmetic after multiplying both sides by the time *)
(* step.  A quantity that output() divides by dt or by dt * dt is held as  *)
(* the pair [n, k] that stands for n / dt^k.                               *)
(***************************************************************************)
EXTENDS Integers, Sequences, FiniteSets, TLC

\* ------------------------------------------------------------------ bounds

MaxFrames == 3
MaxParts == 2
MaxBodyJoints == 3
\* the count of false-returning control() calls stops at this
MaxCounted == 2
\* the links of the articulated body and the feet of the legged body
MaxLinks == 2
MaxFeet == 2

\* ------------------------------------------------------------- arithmetic

Max(a, b) == IF a > b THEN a ELSE b
Min(a, b) == IF a < b THEN a ELSE b
Abs(a) == IF a < 0 THEN 0 - a ELSE a

\* n / dt^k, kept exact
Over(n, k) == [n |-> n, k |-> k]

\* ------------------------------------------------- the controller's inputs

\* 1.0e-6 Hz, the tolerance of line 90, in micro-hertz
RateTol == 1

\* one hertz in micro-hertz, and 1 / (1 ms) in micro-hertz
MicroHz == 10^6
PerMilliSecond == 10^9

\* world time steps, in milliseconds: 0.001 s and 0.002 s
WorldTimeSteps == {1, 2}

\* frame rates of the reference motion, in micro-hertz: 500 Hz, and
\* 1000 Hz with deviations of 0, 1e-6 and 2e-6 Hz on either side
FrameRates ==
    {500 * MicroHz} \cup {1000 * MicroHz + d : d \in {-2, -1, 0, 1, 2}}

\* the recorded angle of part i at frame f of the reference motion of
\* shape p; its first and second differences are nowhere zero
Sample(p, f, i) == p * f * f + (i + 1) * f + 10 * i

Shapes == {1, 3}

\* MultiValueSeq: numFrames() frames of numParts() values at frameRate()
Motions ==
    { [frameRate |-> r, numParts |-> np, numFrames |-> nf,
       frames |-> [f \in 0..(nf - 1) |-> [i \in 0..(np - 1) |-> Sample(p, f, i)]]] :
        r \in FrameRates, np \in 1..MaxParts, nf \in 0..MaxFrames, p \in Shapes }

\* Target: the body the controller is attached to and the world's time step
Targets ==
    { [numJoints |-> nj, worldTimeStep |-> ts] :
        nj \in 1..MaxBodyJoints, ts \in WorldTimeSteps }

\* what an int member holds before start() assigns it
Uninitialized == {-1, 7}

\* the joint state a body arrives with
ArrivingJoint == [q |-> 100, dq |-> Over(100, 0), ddq |-> Over(100, 0)]

\* -------------------------------------------------- the simulator's inputs

\* the bodies of the project: b1 is articulated and legged, b2 is a single
\* link without leg metadata
Bodies == {"b1", "b2"}

NumLinks(b) == IF b = "b1" THEN MaxLinks ELSE 1

NumFeet(b) == IF b = "b1" THEN MaxFeet ELSE 0

\* heights of a foot above the ground, in centimetres: 0.02 m and 0.05 m
FootHeights == {2, 5}

FootPlacements(b) == [0..(NumFeet(b) - 1) -> FootHeights]

\* where forward kinematics can put the feet of the bodies of S, the feet
\* of every other body staying where bs has them
Placements(S, bs) ==
    LET legged == { b \in S : NumFeet(b) > 0 }
    IN  { [b \in Bodies |-> IF b \in legged THEN z[b] ELSE bs[b].footZ] :
            z \in [legged -> [0..(MaxFeet - 1) -> FootHeights]] }

\* simBody->controller() of b1 and b2 in a project: a HighGainControllerItem,
\* a controller of another class or none, each body seen with each
ControllerAssignments ==
    { [b \in Bodies |-> IF b = "b1" THEN pair[1] ELSE pair[2]] :
        pair \in { <<"HighGainControllerItem", "OtherControllerItem">>,
                   <<"OtherControllerItem", "null">>,
                   <<"null", "HighGainControllerItem">> } }

DynamicsModes == {"FORWARD_DYNAMICS", "HG_DYNAMICS", "KINEMATICS"}

\* a body in motion, its feet at z: no velocity, acceleration, torque or
\* force of it is zero
MovingBody(b, z) ==
    [v |-> 1, dv |-> 2, w |-> 3, dw |-> 4, vo |-> 5, dvo |-> 6, p |-> 7,
     q |-> [i \in 0..(NumLinks(b) - 1) |-> 10 + i],
     u |-> [i \in 0..(NumLinks(b) - 1) |-> 20 + i],
     dq |-> [i \in 0..(NumLinks(b) - 1) |-> 30 + i],
     ddq |-> [i \in 0..(NumLinks(b) - 1) |-> 40 + i],
     externalForces |-> 50,
     footZ |-> z]

\* the lists of distinct bodies drawn from a set
RECURSIVE ListsOf(_)
ListsOf(S) ==
    {<< >>} \cup UNION { { <<b>> \o l : l \in ListsOf(S \ {b}) } : b \in S }

BodyLists == ListsOf(Bodies)

Range(l) == { l[k] : k \in 1..Len(l) }

\* one call made by a handler: the callee, the body it is made on, and
\* what was passed, returned or read
Call(name, b, flag, n, z) == [call |-> name, body |-> b, flag |-> flag, n |-> n, z |-> z]

\* ---- the configuration: numbers, selections, number strings, archives

\* how many calls one history makes on the configuration
MaxChanges == 2

\* the doubles and ints handed to the setters: an invalid, a boundary and a
\* valid value of every field
Numbers == {-1, 0, 1}

\* DEFAULT_GRAVITY_ACCELERATION, line 64, in 10^-5 m/s^2
DEFAULT_GRAVITY_ACCELERATION == 980665

Gravities == { <<0, 0, -DEFAULT_GRAVITY_ACCELERATION>>, <<0, 0, 0>> }

\* the numbers a text can stand for
Doubles == Numbers \cup {2, -DEFAULT_GRAVITY_ACCELERATION}

\* self->worldTimeStep(), in milliseconds; a world cannot run on a step of 0
SimulationTimeSteps == {0, 1}

IntegrationModes == {"EULER_INTEGRATION", "RUNGE_KUTTA_INTEGRATION"}

\* the symbols of the two selections, lines 201-206
Symbol(mode) ==
    CASE mode = "FORWARD_DYNAMICS"        -> "Forward dynamics"
      [] mode = "HG_DYNAMICS"             -> "High-gain dynamics"
      [] mode = "KINEMATICS"              -> "Kinematics"
      [] mode = "EULER_INTEGRATION"       -> "Euler"
      [] mode = "RUNGE_KUTTA_INTEGRATION" -> "Runge Kutta"

\* Selection::select(symbol) on a selection over modes, lines 585 and 588:
\* the mode of that symbol, and the selection as it was where there is none
SelectSymbol(modes, selected, symbol) ==
    IF \E m \in modes : Symbol(m) = symbol
    THEN CHOOSE m \in modes : Symbol(m) = symbol
    ELSE selected

\* the text an archive or a FloatingNumberString holds for a number, and
\* the number read back from a text
Format(x) == ToString(x)

IsNumber(text) == \E x \in Doubles : Format(x) = text

ParseNumber(text) == CHOOSE x \in Doubles : Format(x) = text

FormatBool(b) == IF b THEN "true" ELSE "false"

ParseBool(text) == (text = "true")

FormatVector3(v) == [k \in 1..3 |-> Format(v[k])]

ParseVector3(texts) == [k \in 1..3 |-> ParseNumber(texts[k])]

\* FloatingNumberString: a number and the text it was given as
\* operator=(double), lines 300-333
FromValue(x) == [v |-> x, s |-> Format(x)]

\* operator=(const std::string&), lines 595-600: a text that is no number
\* leaves the field as it was
FromString(old, text) == IF IsNumber(text) THEN [v |-> ParseNumber(text), s |-> text] ELSE old

\* setNonNegativeValue(), lines 526-536
SetNonNegativeValue(old, text) ==
    IF IsNumber(text) /\ ParseNumber(text) >= 0 THEN FromString(old, text) ELSE old

\* setPositiveValue(), line 531
SetPositiveValue(old, text) ==
    IF IsNumber(text) /\ ParseNumber(text) > 0 THEN FromString(old, text) ELSE old

\* the texts typed into the property panel
Texts == { Format(x) : x \in Numbers }

\* the settings PMConstraintForceSolver is constructed with
SolverDefaults ==
    [staticFriction |-> 1, slipFriction |-> 1,
     contactCullingDistance |-> 1, contactCullingDepth |-> 1,
     coefficientOfRestitution |-> 1,
     gaussSeidelErrorCriterion |-> 1, gaussSeidelMaxNumIterations |-> 1,
     contactCorrectionDepth |-> 1, contactCorrectionVelocityRatio |-> 1,
     penaltyKp |-> 1, penaltyKv |-> 1, is2Dmode |-> FALSE]

\* the members the constructor sets, lines 196-229
Constructed ==
    [integrationMode |-> "EULER_INTEGRATION",
     gravity |-> <<0, 0, -DEFAULT_GRAVITY_ACCELERATION>>,
     staticFriction |-> SolverDefaults.staticFriction,
     slipFriction |-> SolverDefaults.slipFriction,
     contactCullingDistance |-> FromValue(SolverDefaults.contactCullingDistance),
     contactCullingDepth |-> FromValue(SolverDefaults.contactCullingDepth),
     epsilon |-> SolverDefaults.coefficientOfRestitution,
     errorCriterion |-> FromValue(SolverDefaults.gaussSeidelErrorCriterion),
     maxNumIterations |-> SolverDefaults.gaussSeidelMaxNumIterations,
     contactCorrectionDepth |-> FromValue(SolverDefaults.contactCorrectionDepth),
     contactCorrectionVelocityRatio |->
         FromValue(SolverDefaults.contactCorrectionVelocityRatio),
     is2Dmode |-> FALSE,
     penaltyKp |-> SolverDefaults.penaltyKp,
     penaltyKv |-> SolverDefaults.penaltyKv]

\* the keys store() writes, lines 556-570
Keys ==
    {"dynamicsMode", "integrationMode", "gravity", "staticFriction", "slipFriction",
     "cullingThresh", "contactCullingDepth", "errorCriterion", "maxNumIterations",
     "contactCorrectionDepth", "contactCorrectionVelocityRatio", "kinematicWalking",
     "2Dmode", "penaltyKp", "penaltyKv"}

\* a world before its first initializeSimulation
NoWorldConfig ==
    [method |-> "none", gravity |-> <<0, 0, 0>>, sensors |-> FALSE,
     timeStep |-> 0, currentTime |-> 0]

\* ------------------------------------------------------------------ state

VARIABLES
    \* HighGainControllerItem
    qseqRef,        \* the reference motion
    body,           \* "null" until start() binds the target's body
    currentFrame,
    lastFrame,
    numJoints,
    \* the controller's surroundings
    target,         \* the Target handed to start()
    joints,         \* joint i of the target body: q, dq, ddq
    running,        \* the simulator calls input/control/output after a successful start()
    \* what the calls returned
    message,        \* the text of the last putMessage
    startResult,    \* what the last start() returned, "none" before
    controlResult,  \* what the last control() of this run returned, "none" before
    lastCall,       \* the member function that ran last
    numOk,          \* per-step control() calls of this run that returned true before the first false
    numFalse        \* per-step control() calls of this run that returned false, up to MaxCounted

VARIABLES
    \* PMSimulatorItemImpl
    dynamicsMode,
    isKinematicWalkingEnabled,
    world,          \* world's bodies in the order added, each with its dynamics strategy
    bodyIndexMap,
    \* the simulator's surroundings
    bodies,         \* the state of each body of the project
    controllerOf,   \* simBody->controller() of each body
    \* what the calls did
    simBodies,      \* the argument of the last initializeSimulation
    lastHandler,    \* the member function that ran last, and
    lastArg,        \* the list of bodies it was given
    log             \* the calls it made on the world, the solver and the bodies, in order

VARIABLES
    \* PMSimulatorItemImpl, the configuration
    impl,           \* the members but dynamicsMode and isKinematicWalkingEnabled
    cfs,            \* world.constraintForceSolver: what each setter was last given
    worldConfig,    \* world: integration method, gravity, sensors, time step, time
    \* the configuration's surroundings
    worldTimeStep,  \* self->worldTimeStep()
    archive,        \* the record store() wrote
    \* what the calls did
    initResult,     \* what the last initializeSimulation returned, "none" before
    stored,         \* the members as they were when store() wrote the record
    lastArchive,    \* the record the last restore() was given
    changes         \* calls on the configuration so far

pvars == <<impl, cfs, worldConfig, worldTimeStep, archive, initResult, stored,
           lastArchive, changes>>

svars == <<dynamicsMode, isKinematicWalkingEnabled, world, bodyIndexMap, bodies,
           controllerOf, simBodies, lastHandler, lastArg, log>>

cvars == <<qseqRef, body, currentFrame, lastFrame, numJoints, target, joints,
           running, message, startResult, controlResult, lastCall, numOk, numFalse>>

vars == <<cvars, svars, pvars>>

\* ------------------------------------------------ HighGainControllerItem

\* a control() that plays the motion in a loop
ControlFrameLooping(cf, lf) == IF cf + 1 > lf THEN 0 ELSE cf + 1

\* control(), lines 104-111: the frame it leaves and the value it returns
ControlFrame(cf, lf) == IF cf + 1 > lf THEN lf ELSE cf + 1

ControlReturn(cf, lf) == ~(cf + 1 > lf)

\* a start() that takes the motion's part count alone
StartNumJointsOfMotion(t, m) == m.numParts

\* a start() that takes the body's joint count alone
StartNumJointsOfBody(t, m) == t.numJoints

\* a start() that takes the number of frames for the last frame
StartLastFrameOffByOne(m) == m.numFrames

\* start(), line 84
StartLastFrame(m) == Max(0, m.numFrames - 1)

\* start(), line 85
StartNumJoints(t, m) == Min(t.numJoints, m.numParts)

\* a start() without the control() of line 94
StartFrameWithoutControl(lf) == 0

\* start(), lines 83 and 94: currentFrame = 0, then one control()
StartFrame(lf) == ControlFrame(0, lf)

\* start(), line 90: fabs(frameRate - 1.0 / worldTimeStep) > 1.0e-6
FrameRateDiffers(m, t) ==
    Abs(m.frameRate * t.worldTimeStep - PerMilliSecond) > RateTol * t.worldTimeStep

\* a start() that compares the rates before it looks for frames
StartOutcomeRateFirst(m, t) ==
    IF FrameRateDiffers(m, t) THEN "FrameRateMismatch"
    ELSE IF m.numFrames = 0 THEN "EmptyMotion"
    ELSE "Started"

\* start(), lines 86-95: the condition it ends with
StartOutcome(m, t) ==
    IF m.numFrames = 0 THEN "EmptyMotion"
    ELSE IF FrameRateDiffers(m, t) THEN "FrameRateMismatch"
    ELSE "Started"

\* output(), lines 115-116
PrevFrame(cf) == Max(cf - 1, 0)

NextFrame(cf, lf) == Min(cf + 1, lf)

\* an output() whose velocity is the difference across both neighbours
OutputJointCentred(m, cf, lf, i) ==
    LET q0 == m.frames[PrevFrame(cf)]
        q1 == m.frames[cf]
        q2 == m.frames[NextFrame(cf, lf)]
    IN  [q |-> q1[i],
         dq |-> Over(q2[i] - q0[i], 1),
         ddq |-> Over(q2[i] - 2 * q1[i] + q0[i], 2)]

\* output(), lines 127-129: what joint i is given at frame cf
OutputJoint(m, cf, lf, i) ==
    LET q0 == m.frames[PrevFrame(cf)]
        q1 == m.frames[cf]
        q2 == m.frames[NextFrame(cf, lf)]
    IN  [q |-> q1[i],
         dq |-> Over(q2[i] - q1[i], 1),
         ddq |-> Over(q2[i] - 2 * q1[i] + q0[i], 2)]

\* the constructor, lines 76-79, and the target the simulator will pass
InitController ==
    /\ qseqRef \in Motions
    /\ target \in Targets
    /\ body = "null"
    /\ \E g \in Uninitialized :
          /\ currentFrame = g
          /\ lastFrame = g
          /\ numJoints = g
    /\ joints = [i \in 0..(target.numJoints - 1) |-> ArrivingJoint]
    /\ running = FALSE
    /\ message = ""
    /\ startResult = "none"
    /\ controlResult = "none"
    /\ lastCall = "none"
    /\ numOk = 0
    /\ numFalse = 0

\* start(), lines 81-96
start ==
    /\ ~running
    /\ body' = "target"
    /\ lastFrame' = StartLastFrame(qseqRef)
    /\ numJoints' = StartNumJoints(target, qseqRef)
    /\ LET outcome == StartOutcome(qseqRef, target)
       IN  IF outcome = "Started"
           THEN /\ currentFrame' = StartFrame(lastFrame')
                /\ controlResult' = ControlReturn(0, lastFrame')
                /\ message' = message
                /\ startResult' = TRUE
                /\ running' = TRUE
           ELSE /\ currentFrame' = 0
                /\ controlResult' = "none"
                /\ message' = outcome
                /\ startResult' = FALSE
                /\ running' = FALSE
    /\ lastCall' = "start"
    /\ numOk' = 0
    /\ numFalse' = 0
    /\ UNCHANGED <<qseqRef, target, joints>>
    /\ UNCHANGED <<svars, pvars>>

\* input(), line 102
input ==
    /\ running
    /\ lastCall' = "input"
    /\ UNCHANGED <<qseqRef, body, currentFrame, lastFrame, numJoints, target, joints,
                   running, message, startResult, controlResult, numOk, numFalse>>
    /\ UNCHANGED <<svars, pvars>>

\* control(), lines 104-111, called once per step by the simulator
control ==
    /\ running
    /\ currentFrame' = ControlFrame(currentFrame, lastFrame)
    /\ controlResult' = ControlReturn(currentFrame, lastFrame)
    /\ numOk' = IF controlResult' /\ numFalse = 0 THEN numOk + 1 ELSE numOk
    /\ numFalse' = IF controlResult' THEN numFalse ELSE Min(numFalse + 1, MaxCounted)
    /\ lastCall' = "control"
    /\ UNCHANGED <<qseqRef, body, lastFrame, numJoints, target, joints,
                   running, message, startResult>>
    /\ UNCHANGED <<svars, pvars>>

\* output(), lines 113-131
output ==
    /\ running
    /\ joints' = [i \in DOMAIN joints |->
                    IF i < numJoints
                    THEN OutputJoint(qseqRef, currentFrame, lastFrame, i)
                    ELSE joints[i]]
    /\ lastCall' = "output"
    /\ UNCHANGED <<qseqRef, body, currentFrame, lastFrame, numJoints, target,
                   running, message, startResult, controlResult, numOk, numFalse>>
    /\ UNCHANGED <<svars, pvars>>

\* stop(), line 133: the run is over
stop ==
    /\ running
    /\ running' = FALSE
    /\ lastCall' = "stop"
    /\ UNCHANGED <<qseqRef, body, currentFrame, lastFrame, numJoints, target, joints,
                   message, startResult, controlResult, numOk, numFalse>>
    /\ UNCHANGED <<svars, pvars>>

NextController == start \/ input \/ control \/ output \/ stop


\* ----------------------------------------------------- PMSimulatorItem

\* addBody(), lines 431-437
ZeroRoot(bs) ==
    [bs EXCEPT !.v = 0, !.dv = 0, !.w = 0, !.dw = 0, !.vo = 0, !.dvo = 0]

\* an addBody() that looks at the dynamics mode alone
IsHighGainModeByModeAlone(mode, controller) == mode = "HG_DYNAMICS"

\* addBody(), lines 439-442
IsHighGainMode(mode, controller) ==
    mode = "HG_DYNAMICS" \/ controller = "HighGainControllerItem"

\* an addBody() that leaves the joint accelerations as they are
ZeroLinksButDdq(bs) ==
    [bs EXCEPT !.u = [i \in DOMAIN bs.u |-> 0],
               !.dq = [i \in DOMAIN bs.dq |-> 0]]

\* addBody(), lines 444-449
ZeroLinks(bs) ==
    [bs EXCEPT !.u = [i \in DOMAIN bs.u |-> 0],
               !.dq = [i \in DOMAIN bs.dq |-> 0],
               !.ddq = [i \in DOMAIN bs.ddq |-> 0]]

\* addBody(), line 451
ClearExternalForces(bs) == [bs EXCEPT !.externalForces = 0]

\* no velocity, acceleration, torque or external force is left in a body
AtRest(bs) ==
    /\ bs.v = 0 /\ bs.dv = 0 /\ bs.w = 0 /\ bs.dw = 0 /\ bs.vo = 0 /\ bs.dvo = 0
    /\ \A i \in DOMAIN bs.u : bs.u[i] = 0 /\ bs.dq[i] = 0 /\ bs.ddq[i] = 0
    /\ bs.externalForces = 0

\* Body::calcForwardKinematics from the root link, lines 452, 476 and 483:
\* the links, the feet among them, are placed anew at z
CalcForwardKinematics(bs, z) == [bs EXCEPT !.footZ = z]

\* addBody(), lines 427-461, on st = [bodies, world, bodyIndexMap, log];
\* z is where forward kinematics puts the feet of the body
AddBody(st, b, mode, controller, z) ==
    LET cleared == ClearExternalForces(ZeroLinks(ZeroRoot(st.bodies[b])))
        placed == CalcForwardKinematics(cleared, z)
        isHighGainMode == IsHighGainMode(mode, controller)
        index == Len(st.world)
    IN  [bodies |-> [st.bodies EXCEPT ![b] = placed],
         world |-> Append(st.world, [body |-> b, highGain |-> isHighGainMode]),
         bodyIndexMap |-> (b :> index) @@ st.bodyIndexMap,
         log |-> st.log \o
                 << Call("clearExternalForces", b, TRUE, 0, << >>),
                    Call("calcForwardKinematics", b, AtRest(cleared), 0, << >>),
                    Call("world.addBody", b, isHighGainMode, index, << >>) >>]

\* an initializeSimulation() that keeps the map of the run before
ClearBodiesButMap(st) == [st EXCEPT !.world = << >>]

\* initializeSimulation(), lines 403-404
ClearBodies(st) == [st EXCEPT !.world = << >>, !.bodyIndexMap = << >>]

\* initializeSimulation(), lines 405-407: addBody for simBodies[k..]
RECURSIVE AddBodies(_, _, _, _, _, _)
AddBodies(st, list, k, mode, controllers, fk) ==
    IF k > Len(list) THEN st
    ELSE AddBodies(AddBody(st, list[k], mode, controllers[list[k]], fk[list[k]]),
                   list, k + 1, mode, controllers, fk)

\* a loop over the feet that lets a later foot of equal height win
RECURSIVE SupportFootFromLast(_, _, _, _)
SupportFootFromLast(z, n, i, supportFoot) ==
    IF i >= n THEN supportFoot
    ELSE SupportFootFromLast(z, n, i + 1,
                             IF supportFoot = -1 \/ z[i] <= z[supportFoot] THEN i ELSE supportFoot)

\* stepSimulation(), lines 487-492: the loop over the feet from foot i on,
\* supportFoot being -1 for the null pointer
RECURSIVE SupportFootFrom(_, _, _, _)
SupportFootFrom(z, n, i, supportFoot) ==
    IF i >= n THEN supportFoot
    ELSE SupportFootFrom(z, n, i + 1,
                         IF supportFoot = -1 \/ z[i] < z[supportFoot] THEN i ELSE supportFoot)

\* stepSimulation(), lines 485-492
SupportFoot(z, n) == SupportFootFrom(z, n, 0, -1)

\* a dispatch that leaves high-gain dynamics to the kinematics branch
CallsCalcNextStateForwardOnly(mode) == mode = "FORWARD_DYNAMICS"

\* stepSimulation(), line 468: the world integrates unless the mode is kinematics
CallsCalcNextState(mode) == mode # "KINEMATICS"

\* LeggedBodyHelper::isValid(), line 482: the body has feet
IsValid(b) == NumFeet(b) > 0

\* stepSimulation(), lines 480-495: one body in kinematics mode, on
\* st = [bodies, log]; z is where forward kinematics puts the feet, the
\* support foot staying where it is in a traverse from it
StepBody(st, b, walking, z) ==
    IF ~walking \/ ~IsValid(b)
    THEN [bodies |-> [st.bodies EXCEPT ![b] = CalcForwardKinematics(@, z)],
          log |-> Append(st.log, Call("calcForwardKinematics", b, TRUE, 0, << >>))]
    ELSE LET seen == st.bodies[b].footZ
             supportFoot == SupportFoot(seen, NumFeet(b))
             placed == [k \in DOMAIN seen |-> IF k = supportFoot THEN seen[k] ELSE z[k]]
         IN  [bodies |-> [st.bodies EXCEPT ![b] = [@ EXCEPT !.footZ = placed]],
              log |-> Append(st.log,
                             Call("LinkTraverse.calcForwardKinematics", b, TRUE,
                                  supportFoot, seen))]

\* stepSimulation(), lines 475-477 and 479-496: the loop over activeSimBodies[k..]
RECURSIVE StepBodies(_, _, _, _, _)
StepBodies(st, list, k, walking, fk) ==
    IF k > Len(list) THEN st
    ELSE StepBodies(StepBody(st, list[k], walking, fk[list[k]]),
                    list, k + 1, walking, fk)

\* World::calcNextState, line 469: every body of the world moves on
CalcNextState(bs, w, fk) ==
    [b \in Bodies |->
        IF \E k \in 1..Len(w) : w[k].body = b THEN MovingBody(b, fk[b]) ELSE bs[b]]

\* a world that integrates as the integration mode selects
IntegrationMethodAsSelected(mode) ==
    IF mode = "RUNGE_KUTTA_INTEGRATION" THEN "RungeKutta" ELSE "Euler"

\* the method initializeSimulation() sets for an integration mode, lines 386-390
IntegrationMethod(mode) == "Euler"

\* initializeSimulation(), lines 386-394: the world's settings
ConfigureWorld(i, dt) ==
    [method |-> IntegrationMethod(i.integrationMode),
     gravity |-> i.gravity,
     sensors |-> TRUE,
     timeStep |-> dt,
     currentTime |-> 0]

\* initializeSimulation(), lines 396-419: the solver's settings
ConfigureSolver(c, i) ==
    [c EXCEPT !.gaussSeidelErrorCriterion = i.errorCriterion.v,
              !.gaussSeidelMaxNumIterations = i.maxNumIterations,
              !.contactCorrectionDepth = i.contactCorrectionDepth.v,
              !.contactCorrectionVelocityRatio = i.contactCorrectionVelocityRatio.v,
              !.staticFriction = i.staticFriction,
              !.slipFriction = i.slipFriction,
              !.contactCullingDistance = i.contactCullingDistance.v,
              !.contactCullingDepth = i.contactCullingDepth.v,
              !.coefficientOfRestitution = i.epsilon,
              !.is2Dmode = IF i.is2Dmode THEN TRUE ELSE @,
              !.penaltyKp = i.penaltyKp,
              !.penaltyKv = i.penaltyKv]

\* the constructor, lines 196-229, and the project's bodies
InitSimulator ==
    /\ dynamicsMode = "FORWARD_DYNAMICS"
    /\ isKinematicWalkingEnabled = FALSE
    /\ world = << >>
    /\ bodyIndexMap = << >>
    /\ bodies = [b \in Bodies |-> MovingBody(b, [k \in 0..(NumFeet(b) - 1) |-> 2])]
    /\ controllerOf \in ControllerAssignments
    /\ simBodies = << >>
    /\ lastHandler = "none"
    /\ lastArg = << >>
    /\ log = << >>

\* setDynamicsMode(), lines 270-273
setDynamicsMode ==
    \E mode \in DynamicsModes :
        /\ dynamicsMode' = mode
        /\ lastHandler' = "setDynamicsMode"
        /\ lastArg' = << >>
        /\ log' = << >>
        /\ UNCHANGED <<isKinematicWalkingEnabled, world, bodyIndexMap, bodies,
                       controllerOf, simBodies>>
        /\ UNCHANGED <<cvars, pvars>>

\* setKinematicWalkingEnabled(), lines 348-351
setKinematicWalkingEnabled ==
    \E on \in BOOLEAN :
        /\ isKinematicWalkingEnabled' = on
        /\ lastHandler' = "setKinematicWalkingEnabled"
        /\ lastArg' = << >>
        /\ log' = << >>
        /\ UNCHANGED <<dynamicsMode, world, bodyIndexMap, bodies, controllerOf, simBodies>>
        /\ UNCHANGED <<cvars, pvars>>

\* initializeSimulation(), lines 378-424
initializeSimulation ==
    \E list \in BodyLists :
    \E fk \in Placements(Range(list), bodies) :
        /\ LET st0 == ClearBodies([bodies |-> bodies, world |-> world,
                                   bodyIndexMap |-> bodyIndexMap, log |-> << >>])
               st1 == [st0 EXCEPT !.log = <<Call("world.clearBodies", "", TRUE, 0, << >>)>>]
               st2 == AddBodies(st1, list, 1, dynamicsMode, controllerOf, fk)
           IN  /\ bodies' = st2.bodies
               /\ world' = st2.world
               /\ bodyIndexMap' = st2.bodyIndexMap
               /\ log' = Append(st2.log, Call("world.initialize", "", TRUE, 0, << >>))
        /\ simBodies' = list
        /\ lastHandler' = "initializeSimulation"
        /\ lastArg' = list
        /\ worldConfig' = ConfigureWorld(impl, worldTimeStep)
        /\ cfs' = ConfigureSolver(cfs, impl)
        /\ initResult' = "true"
        /\ UNCHANGED <<dynamicsMode, isKinematicWalkingEnabled, controllerOf>>
        /\ UNCHANGED <<impl, worldTimeStep, archive, stored, lastArchive, changes>>
        /\ UNCHANGED cvars

\* stepSimulation(), lines 464-499, on bodies of the running simulation
stepSimulation ==
    \E list \in { l \in BodyLists : Range(l) \subseteq Range(simBodies) } :
        /\ lastHandler # "none"
        /\ LET cleared == <<Call("cfs.clearExternalForces", "", TRUE, 0, << >>)>>
           IN  IF CallsCalcNextState(dynamicsMode)
               THEN \E fk \in Placements(Range(simBodies), bodies) :
                        /\ bodies' = CalcNextState(bodies, world, fk)
                        /\ log' = Append(cleared,
                                         Call("world.calcNextState", "", TRUE, 0, << >>))
               ELSE \E fk \in Placements(Range(list), bodies) :
                        LET st == StepBodies([bodies |-> bodies, log |-> cleared], list, 1,
                                             isKinematicWalkingEnabled, fk)
                        IN  /\ bodies' = st.bodies
                            /\ log' = st.log
        /\ lastHandler' = "stepSimulation"
        /\ lastArg' = list
        /\ UNCHANGED <<dynamicsMode, isKinematicWalkingEnabled, world, bodyIndexMap,
                       controllerOf, simBodies>>
        /\ UNCHANGED <<cvars, pvars>>

\* ---- the configuration: public setters, lines 276-345

\* a call on the configuration, one of the MaxChanges of a history: what it
\* records and what no such call touches
ConfigurationCall(name) ==
    /\ changes < MaxChanges
    /\ changes' = changes + 1
    /\ lastHandler' = name
    /\ lastArg' = << >>
    /\ log' = << >>
    /\ UNCHANGED <<world, bodyIndexMap, bodies, controllerOf, simBodies>>
    /\ UNCHANGED <<cfs, worldConfig, worldTimeStep, initResult>>
    /\ UNCHANGED cvars

\* a call that assigns members of impl and nothing else
SetMember(name, i) ==
    /\ ConfigurationCall(name)
    /\ impl' = i
    /\ UNCHANGED <<dynamicsMode, isKinematicWalkingEnabled, archive, stored, lastArchive>>

\* setIntegrationMode(), lines 276-279
setIntegrationMode ==
    \E mode \in IntegrationModes :
        SetMember("setIntegrationMode", [impl EXCEPT !.integrationMode = mode])

\* setGravity(), lines 282-285
setGravity ==
    \E gravity \in Gravities :
        SetMember("setGravity", [impl EXCEPT !.gravity = gravity])

\* setStaticFriction(), lines 288-291
setStaticFriction ==
    \E value \in Numbers :
        SetMember("setStaticFriction", [impl EXCEPT !.staticFriction = value])

\* setSlipFriction(), lines 294-297
setSlipFriction ==
    \E value \in Numbers :
        SetMember("setSlipFriction", [impl EXCEPT !.slipFriction = value])

\* setContactCullingDistance(), lines 300-303
setContactCullingDistance ==
    \E value \in Numbers :
        SetMember("setContactCullingDistance",
                  [impl EXCEPT !.contactCullingDistance = FromValue(value)])

\* setContactCullingDepth(), lines 306-309
setContactCullingDepth ==
    \E value \in Numbers :
        SetMember("setContactCullingDepth",
                  [impl EXCEPT !.contactCullingDepth = FromValue(value)])

\* setErrorCriterion(), lines 312-315
setErrorCriterion ==
    \E value \in Numbers :
        SetMember("setErrorCriterion", [impl EXCEPT !.errorCriterion = FromValue(value)])

\* setMaxNumIterations(), lines 318-321
setMaxNumIterations ==
    \E value \in Numbers :
        SetMember("setMaxNumIterations", [impl EXCEPT !.maxNumIterations = value])

\* setContactCorrectionDepth(), lines 324-327
setContactCorrectionDepth ==
    \E value \in Numbers :
        SetMember("setContactCorrectionDepth",
                  [impl EXCEPT !.contactCorrectionDepth = FromValue(value)])

\* setContactCorrectionVelocityRatio(), lines 330-333
setContactCorrectionVelocityRatio ==
    \E value \in Numbers :
        SetMember("setContactCorrectionVelocityRatio",
                  [impl EXCEPT !.contactCorrectionVelocityRatio = FromValue(value)])

\* setEpsilon(), lines 336-339
setEpsilon ==
    \E epsilon \in Numbers :
        SetMember("setEpsilon", [impl EXCEPT !.epsilon = epsilon])

\* set2Dmode(), lines 342-345
set2Dmode ==
    \E on \in BOOLEAN :
        SetMember("set2Dmode", [impl EXCEPT !.is2Dmode = on])

\* ---- the configuration: the property panel, lines 517-544

\* the values an editor bounded below by min hands to its function
AtLeast(min) == { x \in Numbers : x >= min }

\* "Dynamics mode", lines 519-520
propertyDynamicsMode ==
    \E mode \in DynamicsModes :
        /\ ConfigurationCall("propertyDynamicsMode")
        /\ dynamicsMode' = mode
        /\ UNCHANGED <<isKinematicWalkingEnabled, impl, archive, stored, lastArchive>>

\* "Integration mode", lines 521-522
propertyIntegrationMode ==
    \E mode \in IntegrationModes :
        SetMember("propertyIntegrationMode", [impl EXCEPT !.integrationMode = mode])

\* "Gravity", line 523: toVector3 on the text typed
propertyGravity ==
    \E gravity \in Gravities :
        SetMember("propertyGravity",
                  [impl EXCEPT !.gravity = ParseVector3(FormatVector3(gravity))])

\* "Static friction", lines 524-525, under min(0.0)
propertyStaticFriction ==
    \E value \in AtLeast(0) :
        SetMember("propertyStaticFriction", [impl EXCEPT !.staticFriction = value])

\* "Slip friction", line 526, under min(0.0)
propertySlipFriction ==
    \E value \in AtLeast(0) :
        SetMember("propertySlipFriction", [impl EXCEPT !.slipFriction = value])

\* "penaltyKp", line 527, under min(0.0)
propertyPenaltyKp ==
    \E value \in AtLeast(0) :
        SetMember("propertyPenaltyKp", [impl EXCEPT !.penaltyKp = value])

\* "penaltyKv", line 528, under min(0.0)
propertyPenaltyKv ==
    \E value \in AtLeast(0) :
        SetMember("propertyPenaltyKv", [impl EXCEPT !.penaltyKv = value])

\* "Contact culling distance", line 529
propertyContactCullingDistance ==
    \E text \in Texts :
        SetMember("propertyContactCullingDistance",
                  [impl EXCEPT !.contactCullingDistance = SetNonNegativeValue(@, text)])

\* "Contact culling depth", lines 530-531
propertyContactCullingDepth ==
    \E text \in Texts :
        SetMember("propertyContactCullingDepth",
                  [impl EXCEPT !.contactCullingDepth = SetNonNegativeValue(@, text)])

\* "Error criterion", lines 532-533
propertyErrorCriterion ==
    \E text \in Texts :
        SetMember("propertyErrorCriterion",
                  [impl EXCEPT !.errorCriterion = SetPositiveValue(@, text)])

\* "Max iterations", line 534, under min(1.0)
propertyMaxNumIterations ==
    \E value \in AtLeast(1) :
        SetMember("propertyMaxNumIterations", [impl EXCEPT !.maxNumIterations = value])

\* "Contact correction depth", lines 535-536
propertyContactCorrectionDepth ==
    \E text \in Texts :
        SetMember("propertyContactCorrectionDepth",
                  [impl EXCEPT !.contactCorrectionDepth = SetNonNegativeValue(@, text)])

\* "Contact correction v-ratio", lines 537-538
propertyContactCorrectionVelocityRatio ==
    \E text \in Texts :
        SetMember("propertyContactCorrectionVelocityRatio",
                  [impl EXCEPT !.contactCorrectionVelocityRatio =
                                   SetNonNegativeValue(@, text)])

\* "Kinematic walking", lines 539-540
propertyKinematicWalking ==
    \E on \in BOOLEAN :
        /\ ConfigurationCall("propertyKinematicWalking")
        /\ isKinematicWalkingEnabled' = on
        /\ UNCHANGED <<dynamicsMode, impl, archive, stored, lastArchive>>

\* "2D mode", line 541
property2Dmode ==
    \E on \in BOOLEAN :
        SetMember("property2Dmode", [impl EXCEPT !.is2Dmode = on])

\* ---- the configuration: store and restore, lines 554-605

\* the members store() reads and restore() assigns
Members(mode, walking, i) ==
    [dynamicsMode |-> mode, isKinematicWalkingEnabled |-> walking, impl |-> i]

\* a store() that writes the culling distance under the name of its member
StoreCullingDistanceByName(m) ==
    [k \in (Keys \ {"cullingThresh"}) \cup {"contactCullingDistance"} |->
        CASE k = "dynamicsMode" -> Symbol(m.dynamicsMode)
          [] k = "integrationMode" -> Symbol(m.impl.integrationMode)
          [] k = "gravity" -> FormatVector3(m.impl.gravity)
          [] k = "staticFriction" -> Format(m.impl.staticFriction)
          [] k = "slipFriction" -> Format(m.impl.slipFriction)
          [] k = "contactCullingDistance" -> m.impl.contactCullingDistance.s
          [] k = "contactCullingDepth" -> m.impl.contactCullingDepth.s
          [] k = "errorCriterion" -> m.impl.errorCriterion.s
          [] k = "maxNumIterations" -> Format(m.impl.maxNumIterations)
          [] k = "contactCorrectionDepth" -> m.impl.contactCorrectionDepth.s
          [] k = "contactCorrectionVelocityRatio" ->
                 m.impl.contactCorrectionVelocityRatio.s
          [] k = "kinematicWalking" -> FormatBool(m.isKinematicWalkingEnabled)
          [] k = "2Dmode" -> FormatBool(m.impl.is2Dmode)
          [] k = "penaltyKp" -> Format(m.impl.penaltyKp)
          [] k = "penaltyKv" -> Format(m.impl.penaltyKv)]

\* the record store() writes, lines 556-570
Store(m) ==
    [k \in Keys |->
        CASE k = "dynamicsMode" -> Symbol(m.dynamicsMode)
          [] k = "integrationMode" -> Symbol(m.impl.integrationMode)
          [] k = "gravity" -> FormatVector3(m.impl.gravity)
          [] k = "staticFriction" -> Format(m.impl.staticFriction)
          [] k = "slipFriction" -> Format(m.impl.slipFriction)
          [] k = "cullingThresh" -> m.impl.contactCullingDistance.s
          [] k = "contactCullingDepth" -> m.impl.contactCullingDepth.s
          [] k = "errorCriterion" -> m.impl.errorCriterion.s
          [] k = "maxNumIterations" -> Format(m.impl.maxNumIterations)
          [] k = "contactCorrectionDepth" -> m.impl.contactCorrectionDepth.s
          [] k = "contactCorrectionVelocityRatio" ->
                 m.impl.contactCorrectionVelocityRatio.s
          [] k = "kinematicWalking" -> FormatBool(m.isKinematicWalkingEnabled)
          [] k = "2Dmode" -> FormatBool(m.impl.is2Dmode)
          [] k = "penaltyKp" -> Format(m.impl.penaltyKp)
          [] k = "penaltyKv" -> Format(m.impl.penaltyKv)]

\* archive.read(key, member) finds the key
Has(a, key) == key \in DOMAIN a

\* archive.get(key, default)
Get(a, key, default) == IF Has(a, key) THEN a[key] ELSE default

\* the members after restore() from record a, lines 584-603
Restore(a, m) ==
    Members(
        IF Has(a, "dynamicsMode")
        THEN SelectSymbol(DynamicsModes, m.dynamicsMode, a["dynamicsMode"])
        ELSE m.dynamicsMode,
        IF Has(a, "kinematicWalking")
        THEN ParseBool(a["kinematicWalking"])
        ELSE m.isKinematicWalkingEnabled,
        [m.impl EXCEPT
            !.integrationMode =
                IF Has(a, "integrationMode")
                THEN SelectSymbol(IntegrationModes, @, a["integrationMode"]) ELSE @,
            !.gravity = IF Has(a, "gravity") THEN ParseVector3(a["gravity"]) ELSE @,
            !.staticFriction =
                IF Has(a, "staticFriction") THEN ParseNumber(a["staticFriction"]) ELSE @,
            !.slipFriction =
                IF Has(a, "slipFriction") THEN ParseNumber(a["slipFriction"]) ELSE @,
            !.contactCullingDistance = FromString(@, Get(a, "cullingThresh", @.s)),
            !.contactCullingDepth = FromString(@, Get(a, "contactCullingDepth", @.s)),
            !.errorCriterion = FromString(@, Get(a, "errorCriterion", @.s)),
            !.maxNumIterations =
                IF Has(a, "maxNumIterations") THEN ParseNumber(a["maxNumIterations"]) ELSE @,
            !.contactCorrectionDepth =
                FromString(@, Get(a, "contactCorrectionDepth", @.s)),
            !.contactCorrectionVelocityRatio =
                FromString(@, Get(a, "contactCorrectionVelocityRatio", @.s)),
            !.is2Dmode = IF Has(a, "2Dmode") THEN ParseBool(a["2Dmode"]) ELSE @,
            !.penaltyKp = IF Has(a, "penaltyKp") THEN ParseNumber(a["penaltyKp"]) ELSE @,
            !.penaltyKv = IF Has(a, "penaltyKv") THEN ParseNumber(a["penaltyKv"]) ELSE @])

\* an item every member of which the property panel, lines 517-544, has changed
Configured ==
    Members("KINEMATICS", TRUE,
            [integrationMode |-> "RUNGE_KUTTA_INTEGRATION",
             gravity |-> <<0, 0, 0>>,
             staticFriction |-> 0,
             slipFriction |-> 0,
             contactCullingDistance |-> FromValue(0),
             contactCullingDepth |-> FromValue(0),
             epsilon |-> SolverDefaults.coefficientOfRestitution,
             errorCriterion |-> FromValue(2),
             maxNumIterations |-> 2,
             contactCorrectionDepth |-> FromValue(0),
             contactCorrectionVelocityRatio |-> FromValue(0),
             is2Dmode |-> TRUE,
             penaltyKp |-> 0,
             penaltyKv |-> 0])

\* no record yet
NoArchive == [k \in {} |-> ""]

\* the records a project file can hold of record a: all of it, or all but one key
ArchivesOf(a) ==
    { [k \in K |-> a[k]] : K \in {DOMAIN a} \cup { DOMAIN a \ {k} : k \in DOMAIN a } }

\* store(), lines 554-572
store ==
    /\ ConfigurationCall("store")
    /\ archive' = Store(Members(dynamicsMode, isKinematicWalkingEnabled, impl))
    /\ stored' = Members(dynamicsMode, isKinematicWalkingEnabled, impl)
    /\ UNCHANGED <<dynamicsMode, isKinematicWalkingEnabled, impl, lastArchive>>

\* restore(), lines 582-605, from a record of the project file
restore ==
    \E a \in ArchivesOf(archive) :
        /\ archive # NoArchive
        /\ ConfigurationCall("restore")
        /\ LET m == Restore(a, Members(dynamicsMode, isKinematicWalkingEnabled, impl))
           IN  /\ dynamicsMode' = m.dynamicsMode
               /\ isKinematicWalkingEnabled' = m.isKinematicWalkingEnabled
               /\ impl' = m.impl
        /\ lastArchive' = a
        /\ UNCHANGED <<archive, stored>>

NextConfiguration ==
    \/ setIntegrationMode
    \/ setGravity
    \/ setStaticFriction
    \/ setSlipFriction
    \/ setContactCullingDistance
    \/ setContactCullingDepth
    \/ setErrorCriterion
    \/ setMaxNumIterations
    \/ setContactCorrectionDepth
    \/ setContactCorrectionVelocityRatio
    \/ setEpsilon
    \/ set2Dmode
    \/ propertyDynamicsMode
    \/ propertyIntegrationMode
    \/ propertyGravity
    \/ propertyStaticFriction
    \/ propertySlipFriction
    \/ propertyPenaltyKp
    \/ propertyPenaltyKv
    \/ propertyContactCullingDistance
    \/ propertyContactCullingDepth
    \/ propertyErrorCriterion
    \/ propertyMaxNumIterations
    \/ propertyContactCorrectionDepth
    \/ propertyContactCorrectionVelocityRatio
    \/ propertyKinematicWalking
    \/ property2Dmode
    \/ store
    \/ restore

\* successive simulations of one simulator item
NextRuns ==
    \/ set2Dmode
    \/ setIntegrationMode
    \/ initializeSimulation

NextSimulator ==
    \/ setDynamicsMode
    \/ setKinematicWalkingEnabled
    \/ initializeSimulation
    \/ stepSimulation

\* ----------------------------------------------------- specifications

\* the controller item before its first run, beside a simulator item
\* fresh from its constructor
IdleSimulator ==
    /\ dynamicsMode = "FORWARD_DYNAMICS"
    /\ isKinematicWalkingEnabled = FALSE
    /\ world = << >>
    /\ bodyIndexMap = << >>
    /\ bodies = [b \in Bodies |-> MovingBody(b, [k \in 0..(NumFeet(b) - 1) |-> 2])]
    /\ controllerOf = [b \in Bodies |-> "null"]
    /\ simBodies = << >>
    /\ lastHandler = "none"
    /\ lastArg = << >>
    /\ log = << >>

\* the simulator item beside a controller item that is never started
IdleController ==
    /\ qseqRef = [frameRate |-> 1000 * MicroHz, numParts |-> 1, numFrames |-> 0,
                  frames |-> << >>]
    /\ target = [numJoints |-> 1, worldTimeStep |-> 1]
    /\ body = "null"
    /\ currentFrame = -1
    /\ lastFrame = -1
    /\ numJoints = -1
    /\ joints = [i \in 0..0 |-> ArrivingJoint]
    /\ running = FALSE
    /\ message = ""
    /\ startResult = "none"
    /\ controlResult = "none"
    /\ lastCall = "none"
    /\ numOk = 0
    /\ numFalse = 0

\* the configuration the constructor leaves, lines 196-229, before any
\* simulation
InitConfiguration ==
    /\ impl = Constructed
    /\ cfs = SolverDefaults
    /\ worldConfig = NoWorldConfig
    /\ initResult = "none"
    /\ lastArchive = NoArchive
    /\ changes = 0

\* a project that holds no record of the item
NoProject ==
    /\ archive = NoArchive
    /\ stored = Members("FORWARD_DYNAMICS", FALSE, Constructed)

\* a project that holds no record, or the record store() wrote of an item
\* whose members all differed from the constructor's
Project ==
    \/ NoProject
    \/ /\ archive = Store(Configured)
       /\ stored = Configured

ControllerRun ==
    InitController /\ IdleSimulator /\ InitConfiguration /\ NoProject /\ worldTimeStep = 1

SimulatorRun ==
    InitSimulator /\ IdleController /\ InitConfiguration /\ NoProject /\ worldTimeStep = 1

ConfigurationRun ==
    IdleSimulator /\ IdleController /\ InitConfiguration /\ Project /\ worldTimeStep = 1

SimulationRuns ==
    /\ IdleSimulator /\ IdleController /\ InitConfiguration /\ NoProject
    /\ worldTimeStep \in SimulationTimeSteps

SpecController == ControllerRun /\ [][NextController]_vars

SpecSimulator == SimulatorRun /\ [][NextSimulator]_vars

SpecConfiguration == ConfigurationRun /\ [][NextConfiguration]_vars

SpecRuns == SimulationRuns /\ [][NextRuns]_vars

\* ------------------------------------------------------------------ claims

\* the world's step rate 1 / worldTimeStep in micro-hertz; the time steps of
\* WorldTimeSteps divide one second exactly
WorldRate == PerMilliSecond \div target.worldTimeStep

\* C1, as stated: when a per-step control() of a run first returns false,
\* exactly numFrames of the per-step control() calls before it returned true.
C1_Original ==
    (running /\ numFalse > 0) => numOk = qseqRef.numFrames

\* C1, amended: when a per-step control() of a run first returns false,
\* exactly max(0, numFrames - 2) of the per-step control() calls before it
\* returned true, and never more than that many return true: start() has
\* already spent one advance on its own control().
C1_ExhaustionAfterNMinus2 ==
    running =>
        LET n == qseqRef.numFrames
            expected == IF n >= 2 THEN n - 2 ELSE 0
        IN  /\ numOk <= expected
            /\ numFalse > 0 => numOk = expected

C1_Witness ==
    /\ running
    /\ qseqRef.numFrames = 3
    /\ numFalse > 0
    /\ numOk = 1

\* C2: start() fails with EmptyMotion when the motion has no frames, fails
\* with FrameRateMismatch when the motion has frames and its rate is more
\* than 1e-6 Hz away from the world's step rate, and succeeds otherwise; a
\* 1000 Hz motion starts at a time step of 1 ms and a 500 Hz motion does not.
C2_StartOutcome ==
    lastCall = "start" =>
        LET empty == qseqRef.numFrames = 0
            apart == \/ qseqRef.frameRate - WorldRate > RateTol
                     \/ WorldRate - qseqRef.frameRate > RateTol
        IN  /\ empty => startResult = FALSE /\ message = "EmptyMotion"
            /\ (~empty /\ apart) => startResult = FALSE /\ message = "FrameRateMismatch"
            /\ (~empty /\ ~apart) => startResult = TRUE /\ message = ""
            /\ startResult = running
            /\ (~empty /\ target.worldTimeStep = 1 /\ qseqRef.frameRate = 1000 * MicroHz)
                   => startResult = TRUE
            /\ (~empty /\ target.worldTimeStep = 1 /\ qseqRef.frameRate = 500 * MicroHz)
                   => startResult = FALSE /\ message = "FrameRateMismatch"

C2_Witness ==
    /\ lastCall = "start"
    /\ qseqRef.numFrames = 0
    /\ qseqRef.frameRate = 500 * MicroHz
    /\ target.worldTimeStep = 1
    /\ startResult = FALSE
    /\ message = "EmptyMotion"

\* C3, as stated: right after a successful start() the current frame is 0,
\* lastFrame is max(0, numFrames - 1) and numJoints is the smaller of the
\* body's and the motion's joint counts.
C3_Original ==
    (lastCall = "start" /\ startResult = TRUE) =>
        /\ currentFrame = 0
        /\ lastFrame >= 0 /\ lastFrame >= qseqRef.numFrames - 1
        /\ lastFrame \in {0, qseqRef.numFrames - 1}
        /\ numJoints <= target.numJoints /\ numJoints <= qseqRef.numParts
        /\ numJoints \in {target.numJoints, qseqRef.numParts}

\* C3, amended: right after a successful start() the current frame is
\* min(1, lastFrame), lastFrame is max(0, numFrames - 1) and numJoints is the
\* smaller of the body's and the motion's joint counts.
C3_StateAfterStart ==
    (lastCall = "start" /\ startResult = TRUE) =>
        /\ currentFrame = (IF lastFrame >= 1 THEN 1 ELSE lastFrame)
        /\ lastFrame >= 0 /\ lastFrame >= qseqRef.numFrames - 1
        /\ lastFrame \in {0, qseqRef.numFrames - 1}
        /\ numJoints <= target.numJoints /\ numJoints <= qseqRef.numParts
        /\ numJoints \in {target.numJoints, qseqRef.numParts}

C3_Witness ==
    /\ lastCall = "start"
    /\ startResult = TRUE
    /\ qseqRef.numFrames = 3
    /\ currentFrame = 1
    /\ lastFrame = 2
    /\ target.numJoints = 3
    /\ numJoints = 2

\* C4: a control() advances the current frame by one, or, where that would
\* pass lastFrame, leaves it at lastFrame and returns false; and a control()
\* that follows one that returned false in the same run returns false again
\* with the frame still at lastFrame.
C4_ControlAdvancesThenStays ==
    [][lastCall' = "control" =>
          /\ (currentFrame + 1 <= lastFrame) =>
                 (currentFrame' = currentFrame + 1 /\ controlResult' = TRUE)
          /\ (currentFrame + 1 > lastFrame) =>
                 (currentFrame' = lastFrame /\ controlResult' = FALSE)
          /\ (controlResult = FALSE) =>
                 /\ controlResult' = FALSE
                 /\ currentFrame = lastFrame
                 /\ currentFrame' = lastFrame
          /\ lastFrame' = lastFrame]_vars

C4_Witness ==
    /\ lastCall = "control"
    /\ qseqRef.numFrames = 3
    /\ numOk = 1
    /\ numFalse = 2
    /\ controlResult = FALSE
    /\ currentFrame = lastFrame

\* C5: after output() at frame f every driven joint i < numJoints holds
\* q = q[f][i], dq = (q[next][i] - q[f][i]) / dt and
\* ddq = (q[next][i] - 2 q[f][i] + q[prev][i]) / dt^2, with prev = f - 1
\* except prev = 0 at f = 0 and next = f + 1 except next = N - 1 at f = N - 1,
\* so that the velocity at the last frame is 0.
C5_FiniteDifferences ==
    lastCall = "output" =>
        LET f == currentFrame
            n == qseqRef.numFrames
            prev == IF f = 0 THEN 0 ELSE f - 1
            next == IF f = n - 1 THEN n - 1 ELSE f + 1
            q == qseqRef.frames
        IN  /\ f \in 0..(n - 1)
            /\ \A i \in 0..(numJoints - 1) :
                  /\ joints[i].q = q[f][i]
                  /\ joints[i].dq = [n |-> q[next][i] - q[f][i], k |-> 1]
                  /\ joints[i].ddq = [n |-> q[next][i] - 2 * q[f][i] + q[prev][i], k |-> 2]
                  /\ (f = n - 1) => joints[i].dq.n = 0

C5_Witness ==
    /\ lastCall = "output"
    /\ qseqRef.numFrames = 3
    /\ currentFrame = 1
    /\ numJoints = 2
    /\ joints[1].q = qseqRef.frames[1][1]
    /\ joints[1].dq.n # 0
    /\ joints[1].ddq.n # 0

\* the places of log l where name is called on body b
CallsIn(l, name, b) == { k \in 1..Len(l) : l[k].call = name /\ l[k].body = b }

\* the places of log l where name is called
CallsOf(l, name) == { k \in 1..Len(l) : l[k].call = name }

\* C6: initializeSimulation registers every body of its list exactly once,
\* with the high-gain strategy exactly when the dynamics mode is high-gain
\* dynamics or the body's controller is a HighGainControllerItem, and with
\* standard forward dynamics otherwise.
C6_DynamicsStrategy ==
    lastHandler = "initializeSimulation" =>
        \A b \in Range(simBodies) :
            LET places == { k \in 1..Len(world) : world[k].body = b }
            IN  /\ Cardinality(places) = 1
                /\ Cardinality(CallsIn(log, "world.addBody", b)) = 1
                /\ \A k \in places :
                      world[k].highGain <=>
                          \/ dynamicsMode = "HG_DYNAMICS"
                          \/ controllerOf[b] = "HighGainControllerItem"

C6_Witness ==
    /\ lastHandler = "initializeSimulation"
    /\ dynamicsMode = "FORWARD_DYNAMICS"
    /\ Len(world) = 2
    /\ world[1].highGain
    /\ ~world[2].highGain
    /\ controllerOf[world[2].body] = "OtherControllerItem"

\* C7: after any number of initializeSimulation calls the BodyIndexMap and
\* the world hold exactly the bodies of the most recent call, and each of
\* them maps to one index, the one the world returned when it was added.
C7_MapMatchesLastCall ==
    /\ DOMAIN bodyIndexMap = Range(simBodies)
    /\ { world[k].body : k \in 1..Len(world) } = Range(simBodies)
    /\ Len(world) = Len(simBodies)
    /\ \A b \in DOMAIN bodyIndexMap :
          /\ bodyIndexMap[b] \in 0..(Len(world) - 1)
          /\ world[bodyIndexMap[b] + 1].body = b
    /\ lastHandler = "initializeSimulation" =>
          \A k \in CallsOf(log, "world.addBody") : log[k].n = bodyIndexMap[log[k].body]

\* b1 is at rest, so an earlier call had it, and the last call had b2 alone
C7_Witness ==
    /\ lastHandler = "initializeSimulation"
    /\ simBodies = <<"b2">>
    /\ bodies["b1"].v = 0
    /\ DOMAIN bodyIndexMap = {"b2"}
    /\ bodyIndexMap["b2"] = 0

\* C8: initializeSimulation leaves every body of its list with the root
\* link's v, dv, w, dw, vo and dvo at zero, every link's u, dq and ddq at
\* zero and no external force, computes its forward kinematics once, after
\* all that and before the body is added to the world, and leaves its joint
\* angles and its root position as they were.
C8_BodiesReset ==
    [][lastHandler' = "initializeSimulation" =>
          \A b \in Range(simBodies') :
              /\ bodies'[b].v = 0 /\ bodies'[b].dv = 0
              /\ bodies'[b].w = 0 /\ bodies'[b].dw = 0
              /\ bodies'[b].vo = 0 /\ bodies'[b].dvo = 0
              /\ \A i \in 0..(NumLinks(b) - 1) :
                    /\ bodies'[b].u[i] = 0
                    /\ bodies'[b].dq[i] = 0
                    /\ bodies'[b].ddq[i] = 0
              /\ bodies'[b].externalForces = 0
              /\ bodies'[b].q = bodies[b].q
              /\ bodies'[b].p = bodies[b].p
              /\ Cardinality(CallsIn(log', "calcForwardKinematics", b)) = 1
              /\ \A j \in CallsIn(log', "calcForwardKinematics", b) :
                    /\ log'[j].flag
                    /\ \E i \in CallsIn(log', "clearExternalForces", b) : i < j
                    /\ \A k \in CallsIn(log', "world.addBody", b) : j < k]_vars

C8_Witness ==
    /\ lastHandler = "initializeSimulation"
    /\ simBodies = <<"b1", "b2">>
    /\ bodies["b1"].dvo = 0
    /\ bodies["b1"].ddq[1] = 0
    /\ bodies["b1"].externalForces = 0
    /\ bodies["b1"].q[1] = 11
    /\ bodies["b1"].p = 7
    /\ Len(log) = 8

\* C9: a stepSimulation clears the solver's external forces once, first of
\* all; in forward or high-gain dynamics mode it then calls calcNextState
\* once and no forward kinematics, and in kinematics mode it never calls
\* calcNextState and updates the forward kinematics of every active body
\* once.
C9_StepDispatch ==
    lastHandler = "stepSimulation" =>
        LET kinematics(b) == CallsIn(log, "calcForwardKinematics", b)
                             \cup CallsIn(log, "LinkTraverse.calcForwardKinematics", b)
        IN  /\ log[1].call = "cfs.clearExternalForces"
            /\ Cardinality(CallsOf(log, "cfs.clearExternalForces")) = 1
            /\ dynamicsMode \in {"FORWARD_DYNAMICS", "HG_DYNAMICS"} =>
                  /\ Cardinality(CallsOf(log, "world.calcNextState")) = 1
                  /\ \A b \in Bodies : kinematics(b) = {}
            /\ dynamicsMode = "KINEMATICS" =>
                  /\ CallsOf(log, "world.calcNextState") = {}
                  /\ \A b \in Range(lastArg) : Cardinality(kinematics(b)) = 1
                  /\ \A b \in Bodies \ Range(lastArg) : kinematics(b) = {}

C9_Witness ==
    /\ lastHandler = "stepSimulation"
    /\ dynamicsMode = "KINEMATICS"
    /\ Len(lastArg) = 2
    /\ Len(log) = 3
    /\ world[1].highGain

\* C10: in kinematics mode with walking enabled, an active body with valid
\* leg metadata has its forward kinematics propagated from a foot of least
\* height, the one of the lowest index among the feet of that height (of
\* feet at 0.05 and 0.02 the one at 0.02); an active body without valid leg
\* metadata gets the whole-body forward kinematics instead.
C10_SupportFoot ==
    (lastHandler = "stepSimulation" /\ dynamicsMode = "KINEMATICS"
        /\ isKinematicWalkingEnabled) =>
        \A b \in Range(lastArg) :
            LET traverses == CallsIn(log, "LinkTraverse.calcForwardKinematics", b)
                plain == CallsIn(log, "calcForwardKinematics", b)
            IN  IF NumFeet(b) > 0
                THEN /\ Cardinality(traverses) = 1
                     /\ plain = {}
                     /\ \A e \in traverses :
                           LET z == log[e].z
                               foot == log[e].n
                           IN  /\ foot \in 0..(NumFeet(b) - 1)
                               /\ \A j \in 0..(NumFeet(b) - 1) : z[foot] <= z[j]
                               /\ \A j \in 0..(foot - 1) : z[j] > z[foot]
                               /\ (NumFeet(b) = 2 /\ z[0] = 5 /\ z[1] = 2) => foot = 1
                               /\ bodies[b].footZ[foot] = z[foot]
                ELSE /\ traverses = {}
                     /\ Cardinality(plain) = 1

\* two feet at one height, the first of them chosen, beside a body without legs
C10_Witness ==
    /\ lastHandler = "stepSimulation"
    /\ dynamicsMode = "KINEMATICS"
    /\ isKinematicWalkingEnabled
    /\ lastArg = <<"b2", "b1">>
    /\ log[2].call = "calcForwardKinematics"
    /\ log[3].call = "LinkTraverse.calcForwardKinematics"
    /\ log[3].z[0] = 5
    /\ log[3].z[1] = 5
    /\ log[3].n = 0

\* C11: an initializeSimulation on a world that cannot be initialized, its
\* time step not positive, returns false, and every other one returns true.
C11_FailureIsReturned ==
    lastHandler = "initializeSimulation" =>
        IF worldTimeStep <= 0 THEN initResult = "false" ELSE initResult = "true"

\* C12: whatever public setters, property-panel setters and restore() have
\* run, static and slip friction are at least 0, contact culling distance
\* and depth are at least 0, the error criterion is above 0 and the
\* maximum number of iterations is at least 1.
C12_ConfigurationWithinBounds ==
    /\ impl.staticFriction >= 0
    /\ impl.slipFriction >= 0
    /\ impl.contactCullingDistance.v >= 0
    /\ impl.contactCullingDepth.v >= 0
    /\ impl.errorCriterion.v > 0
    /\ impl.maxNumIterations >= 1

\* the member a key of the record persists
Persisted(m, key) ==
    CASE key = "dynamicsMode" -> m.dynamicsMode
      [] key = "integrationMode" -> m.impl.integrationMode
      [] key = "gravity" -> m.impl.gravity
      [] key = "staticFriction" -> m.impl.staticFriction
      [] key = "slipFriction" -> m.impl.slipFriction
      [] key = "cullingThresh" -> m.impl.contactCullingDistance
      [] key = "contactCullingDepth" -> m.impl.contactCullingDepth
      [] key = "errorCriterion" -> m.impl.errorCriterion
      [] key = "maxNumIterations" -> m.impl.maxNumIterations
      [] key = "contactCorrectionDepth" -> m.impl.contactCorrectionDepth
      [] key = "contactCorrectionVelocityRatio" -> m.impl.contactCorrectionVelocityRatio
      [] key = "kinematicWalking" -> m.isKinematicWalkingEnabled
      [] key = "2Dmode" -> m.impl.is2Dmode
      [] key = "penaltyKp" -> m.impl.penaltyKp
      [] key = "penaltyKv" -> m.impl.penaltyKv

C14_Solver2DmodeFollowsFlag ==
    lastHandler = "initializeSimulation" => cfs.is2Dmode = impl.is2Dmode

\* C15: every initializeSimulation sets the world to the Euler method and
\* returns true, whichever integration mode is selected, and
\* setIntegrationMode stores the mode and changes nothing of the world.
C15_AlwaysEuler ==
    [][/\ lastHandler' = "initializeSimulation" =>
              /\ worldConfig'.method = "Euler"
              /\ initResult' = "true"
       /\ lastHandler' = "setIntegrationMode" =>
              /\ impl'.integrationMode \in IntegrationModes
              /\ worldConfig' = worldConfig]_vars

\* a simulation initialized with Runge Kutta selected
C15_Witness ==
    /\ lastHandler = "initializeSimulation"
    /\ impl.integrationMode = "RUNGE_KUTTA_INTEGRATION"
    /\ worldConfig.method = "Euler"
    /\ initResult = "true"

\* C16: in a run begun by a successful start(), whatever control() and
\* output() calls have been made, the frames output() reads satisfy
\* 0 <= prevFrame <= currentFrame <= nextFrame <= lastFrame = numFrames - 1,
\* so that each of them is a frame of the recorded sequence.
C16_FramesInsideMotion ==
    running =>
        LET prevFrame == PrevFrame(currentFrame)
            nextFrame == NextFrame(currentFrame, lastFrame)
        IN  /\ 0 <= prevFrame
            /\ prevFrame <= currentFrame
            /\ currentFrame <= nextFrame
            /\ nextFrame <= lastFrame
            /\ lastFrame = qseqRef.numFrames - 1
            /\ {prevFrame, currentFrame, nextFrame} \subseteq DOMAIN qseqRef.frames

\* an output() at the last frame of three, after control() has run out
C16_Witness ==
    /\ running
    /\ lastCall = "output"
    /\ qseqRef.numFrames = 3
    /\ numFalse > 0
    /\ currentFrame = 2
    /\ NextFrame(currentFrame, lastFrame) = 2
    /\ PrevFrame(currentFrame) = 1

\* C17: in a run numJoints exceeds neither the body's joint count nor the
\* motion's part count; output() leaves the angle, velocity and acceleration
\* of every joint of index numJoints or more as they were, and control() and
\* input() leave every joint as it was.
C17_OnlyDrivenJointsWritten ==
    [][/\ running' => /\ numJoints' <= target'.numJoints
                      /\ numJoints' <= qseqRef'.numParts
                      /\ DOMAIN joints' = 0..(target'.numJoints - 1)
       /\ lastCall' = "output" =>
              \A i \in DOMAIN joints : i >= numJoints => joints'[i] = joints[i]
       /\ lastCall' \in {"control", "input"} => joints' = joints]_vars

\* a body of three joints under a motion of two parts: joint 2 is as it came
C17_Witness ==
    /\ lastCall = "output"
    /\ target.numJoints = 3
    /\ numJoints = 2
    /\ joints[2] = ArrivingJoint
    /\ joints[1].q = qseqRef.frames[currentFrame][1]
    /\ joints[1] # ArrivingJoint

====
